---- MODULE Spec2Model ----
(***************************************************************************)
(* CBC Chain bootstrap of the explorer service.                            *)
(*                                                                         *)
(* The model follows internal/cbc/cbc_init.go (CBCInitializer) and the     *)
(* startup sequence of internal/service/service.go (New, initCBCChain,     *)
(* initSubRuntimeLatest, initSubRuntimeLatestWithoutFetch).                *)
(*                                                                         *)
(* Strings are sequences of one-character strings, so that HasPrefix,      *)
(* HasSuffix, Contains, ToLower and len are computed on the text itself.   *)
(* A Go error is the chain of its messages, outermost first; nil is the    *)
(* empty chain.  A pointer that may be nil is a sequence of length 0 or 1. *)
(***************************************************************************)
EXTENDS Integers, Sequences, FiniteSets, TLC

\* ------------------------------------------------------------------------
\* Bounds
\* ------------------------------------------------------------------------

\* Number of service starts (process starts) explored against one Store.
MaxRuns == 2

\* ------------------------------------------------------------------------
\* Strings
\* ------------------------------------------------------------------------

Pad(c, n) == [k \in 1..n |-> c]

\* strings.HasPrefix
HasPrefix(s, p) == Len(s) >= Len(p) /\ SubSeq(s, 1, Len(p)) = p

\* strings.HasSuffix
HasSuffix(s, p) == Len(s) >= Len(p) /\ SubSeq(s, Len(s) - Len(p) + 1, Len(s)) = p

\* strings.Contains
Contains(s, sub) == \E k \in 1..(Len(s) - Len(sub) + 1) : SubSeq(s, k, k + Len(sub) - 1) = sub

LowerChar(c) ==
    CASE c = "A" -> "a" [] c = "B" -> "b" [] c = "C" -> "c" [] c = "D" -> "d"
      [] c = "H" -> "h" [] c = "I" -> "i" [] c = "K" -> "k" [] c = "N" -> "n"
      [] c = "O" -> "o" [] c = "T" -> "t"
      [] OTHER -> c

\* strings.ToLower
ToLower(s) == [k \in 1..Len(s) |-> LowerChar(s[k])]

Prefix0x == <<"0", "x">>

\* strings.Index, counted from 1 (0: sub does not occur in s)
Index(s, sub) ==
    LET found == { k \in 1..(Len(s) - Len(sub) + 1) : SubSeq(s, k, k + Len(sub) - 1) = sub }
    IN  IF found = {} THEN 0 ELSE CHOOSE k \in found : \A j \in found : k <= j

\* strings.Replace(s, old, new, 1)
Replace(s, old, new) ==
    LET k == Index(s, old)
    IN  IF k = 0 THEN s
        ELSE SubSeq(s, 1, k - 1) \o new \o SubSeq(s, k + Len(old), Len(s))

\* ------------------------------------------------------------------------
\* Errors
\* ------------------------------------------------------------------------

NoError == << >>

\* fmt.Errorf(msg) and fmt.Errorf(msg + ": %w", cause); n is the integer and
\* s the string the message formats (0 and "" when it formats none).
Errorf(msg, n) == << [msg |-> msg, n |-> n, s |-> ""] >>

Wrap(msg, n, cause) == << [msg |-> msg, n |-> n, s |-> ""] >> \o cause

\* fmt.Errorf("RPC error: %s (code: %d)", message, code)
RPCErrorf(message, code) == << [msg |-> "RPC error", n |-> code, s |-> message] >>

\* ------------------------------------------------------------------------
\* Program constants
\* ------------------------------------------------------------------------

\* CBCInitializer.retries
retries == 3

\* CBCInitializer.retryWait, in seconds
retryWait == 2

\* the metadata length both checks of insertRuntimeVersion compare with
MetadataLen == 100

\* http.StatusOK
StatusOK == 200

\* the attempts of the generic metadata fetch in initSubRuntimeLatest
GenericAttempts == 3

\* ------------------------------------------------------------------------
\* The node: HTTP replies to a JSON-RPC request
\* ------------------------------------------------------------------------

SpecVersions == {100, 101}

\* result payloads (json.RawMessage): a JSON string, a JSON object (with the
\* specVersion it carries) or a JSON number
JString(s) == [kind |-> "string", str |-> s, specVersion |-> 0]

JObject(v) == [kind |-> "object", str |-> << >>, specVersion |-> v]

JNumber == [kind |-> "number", str |-> << >>, specVersion |-> 0]

\* metadata texts the node may return
MetadataTexts ==
    { Prefix0x \o Pad("a", MetadataLen),          \* a usable blob, 102 characters
      Prefix0x \o Pad("b", MetadataLen - 2),      \* "0x"-prefixed, exactly 100
      Prefix0x \o Pad("c", 4),                    \* "0x"-prefixed, short
      Pad("d", MetadataLen + 1) }                 \* no prefix

ZeroHash == Prefix0x \o Pad("0", 64)

\* finalized-head texts the node may return
HashTexts ==
    { ZeroHash,
      Prefix0x,
      << >>,
      Prefix0x \o Pad("1", 64),
      Prefix0x \o Pad("1", 4) \o Pad("0", 60) }

\* an HTTP exchange as makeRPCCall sees it: did client.Do succeed, the
\* status code, did io.ReadAll succeed, does the body parse into RPCResponse,
\* the envelope's error object (absent: empty sequence) and its result
HTTPReply(doOk, status, readOk, parses, rpcError, result) ==
    [doOk |-> doOk, status |-> status, readOk |-> readOk, parses |-> parses,
     rpcError |-> rpcError, result |-> result]

HTTPFailures ==
    { HTTPReply(FALSE, 0, FALSE, FALSE, << >>, JNumber),
      HTTPReply(TRUE, 500, TRUE, FALSE, << >>, JNumber),
      HTTPReply(TRUE, StatusOK, TRUE, FALSE, << >>, JNumber),
      HTTPReply(TRUE, StatusOK, TRUE, TRUE, << [code |-> -32000, message |-> "remote"] >>, JNumber) }

\* status codes a node or a proxy may answer with
StatusCodes == {200, 201, 204, 301, 404, 500}

\* every HTTP exchange of one call
AllReplies ==
    { HTTPReply(doOk, status, readOk, parses, rpcError, result) :
        doOk \in BOOLEAN, status \in StatusCodes, readOk \in BOOLEAN, parses \in BOOLEAN,
        rpcError \in { << >>, << [code |-> -32000, message |-> "remote"] >> },
        result \in { JNumber, JString(Prefix0x), JObject(100) } }

HTTPResults(payloads) == { HTTPReply(TRUE, StatusOK, TRUE, TRUE, << >>, p) : p \in payloads }

NodeReplies(method, faults) ==
    faults \cup
    CASE method = "state_getRuntimeVersion" ->
            HTTPResults({ JObject(v) : v \in SpecVersions } \cup { JString(Prefix0x) })
      [] method = "state_getMetadata" ->
            HTTPResults({ JString(s) : s \in MetadataTexts } \cup { JNumber })
      [] method = "chain_getFinalizedHead" ->
            HTTPResults({ JString(s) : s \in HashTexts } \cup { JNumber })
      [] method = "chain_getBlock" ->
            HTTPResults({ JObject(0), JNumber })

\* makeRPCCall without the test of the status code
makeRPCCall_anyStatus(reply) ==
    IF ~reply.doOk THEN Errorf("failed to make request", 0)
    ELSE IF ~reply.readOk THEN Errorf("failed to read response", 0)
    ELSE IF ~reply.parses THEN Errorf("failed to unmarshal response", 0)
    ELSE IF reply.rpcError # << >>
         THEN RPCErrorf(reply.rpcError[1].message, reply.rpcError[1].code)
    ELSE NoError

\* makeRPCCall: the error it returns (NoError: the response is returned)
makeRPCCall(reply) ==
    IF ~reply.doOk THEN Errorf("failed to make request", 0)
    ELSE IF reply.status # StatusOK THEN Errorf("unexpected status code", reply.status)
    ELSE IF ~reply.readOk THEN Errorf("failed to read response", 0)
    ELSE IF ~reply.parses THEN Errorf("failed to unmarshal response", 0)
    ELSE IF reply.rpcError # << >>
         THEN RPCErrorf(reply.rpcError[1].message, reply.rpcError[1].code)
    ELSE NoError

\* json.Unmarshal(resp.Result, &x): does the payload decode into the target
UnmarshalOk(payload, target) ==
    CASE target = "string" -> payload.kind = "string"
      [] target = "RuntimeVersion" -> payload.kind = "object"
      [] target = "map" -> payload.kind = "object"

\* ------------------------------------------------------------------------
\* The Runtime Store (dao.IDao): the most recent runtime-version record,
\* absent (empty sequence) or one record
\* ------------------------------------------------------------------------

Record(v, raw) == [SpecVersion |-> v, RawData |-> raw]

StoredTexts == MetadataTexts \cup { << >>, Pad("e", MetadataLen) }

InitialStores == { << >> } \cup { << Record(v, raw) >> : v \in SpecVersions, raw \in StoredTexts }

\* readMostRecentRuntimeVersion
RuntimeVersionRecent(st) == st

\* createRuntimeVersionEntry: an upsert keyed by spec version; a new key
\* becomes the most recent record, with no metadata yet
CreateRuntimeVersion(st, v) ==
    IF st # << >> /\ st[1].SpecVersion = v THEN st ELSE << Record(v, << >>) >>

\* attachRuntimeMetadata: sets the metadata of the record with that key
SetRuntimeData(st, v, raw) ==
    IF st # << >> /\ st[1].SpecVersion = v THEN << Record(v, raw) >> ELSE st

\* ------------------------------------------------------------------------
\* Configuration
\* ------------------------------------------------------------------------

\* util.NetworkNode
NetworkNodes ==
    { <<"C", "B", "C", "-", "C", "h", "a", "i", "n">>,
      <<"m", "y", "-", "C", "b", "c">>,
      <<"b", "c", "b">>,
      <<"d", "o", "t">> }

\* util.NetworkNode of a service that is started again
RestartNodes ==
    { <<"C", "B", "C", "-", "C", "h", "a", "i", "n">>,
      <<"d", "o", "t">> }

SchemeWS == <<"w", "s", ":", "/", "/">>

SchemeWSS == <<"w", "s", "s", ":", "/", "/">>

SchemeHTTP == <<"h", "t", "t", "p", ":", "/", "/">>

SchemeHTTPS == <<"h", "t", "t", "p", "s", ":", "/", "/">>

HostPort == <<"h", ":", "1">>

\* util.WSEndPoint of the running service
DefaultEndPoint == SchemeWS \o HostPort

\* endpoints a configuration can hold
EndPoints ==
    { SchemeWS \o HostPort,
      SchemeWSS \o HostPort,
      SchemeHTTP \o HostPort,
      SchemeHTTPS \o HostPort,
      SchemeWS,
      SchemeWSS,
      HostPort,
      << >>,
      <<"W", "S", ":", "/", "/">> \o HostPort,
      SchemeWS \o HostPort \o <<"/">> \o SchemeWSS \o <<"x">>,
      SchemeWSS \o HostPort \o <<"/">> \o SchemeWS \o <<"x">>,
      SchemeHTTP \o HostPort \o <<"/">> \o SchemeWS \o <<"x">>,
      SchemeHTTP \o HostPort \o <<"/">> \o SchemeWSS \o <<"x">>,
      SchemeHTTPS \o HostPort \o <<"/">> \o SchemeWSS \o <<"x">> }

\* the httpURL of NewCBCInitializer(d, wsEndpoint)
NewCBCInitializer(wsEndpoint) ==
    LET httpURL1 == Replace(wsEndpoint, SchemeWS, SchemeHTTP)
    IN  Replace(httpURL1, SchemeWSS, SchemeHTTPS)

convertWSToHTTP(wsEndpoint) ==
    IF Len(wsEndpoint) > 5 /\ SubSeq(wsEndpoint, 1, 5) = SchemeWS
    THEN SchemeHTTP \o SubSeq(wsEndpoint, 6, Len(wsEndpoint))
    ELSE IF Len(wsEndpoint) > 6 /\ SubSeq(wsEndpoint, 1, 6) = SchemeWSS
         THEN SchemeHTTPS \o SubSeq(wsEndpoint, 7, Len(wsEndpoint))
         ELSE wsEndpoint

CBCModules ==
    << "System", "Timestamp", "Balances", "TransactionPayment", "Sudo",
       "PalletCbcPoi", "PalletCbcPos", "Dcf" >>

CBCPalletNames == << "PalletCbcPoi", "PalletCbcPos", "Dcf" >>

\* IsCBCPallet that looks the name up in the module list
IsCBCPallet_anyModule(name) == \E k \in 1..Len(CBCModules) : CBCModules[k] = name

IsCBCPallet(name) == \E k \in 1..Len(CBCPalletNames) : CBCPalletNames[k] = name

\* pallet names IsCBCPallet is asked about
PalletNames ==
    { "PalletCbcPoi", "PalletCbcPos", "Dcf", "System", "Balances", "Timestamp",
      "TransactionPayment", "Sudo", "palletcbcpoi", "PALLETCBCPOS", "dcf", "DCF",
      "PalletCbc", "Dcf ", "UnknownPallet", "" }

\* clean-restart.sh
MAX_RETRIES == 30

\* clean-restart.sh, the sleep after a failed probe
ProbeSleep == 2

\* ------------------------------------------------------------------------
\* State
\* ------------------------------------------------------------------------

VARIABLES
    nodeFaults,     \* the failing HTTP exchanges the node and the network can produce
    store,          \* the Runtime Store
    runs,           \* service starts so far
    pc,             \* position of the starting service
    networkNode,    \* util.NetworkNode of this start
    entryRecent,    \* what Initialize read at its entry
    i,              \* loop index of the running fetch (or of the generic loop)
    lastErr,        \* lastErr of the running fetch
    delays,         \* the time.Sleep calls of this start, in seconds
    callErr,        \* error returned by the last makeRPCCall
    httpResp,       \* the HTTP exchange of the last makeRPCCall (none: << >>)
    attemptLog,     \* the error of each failed attempt of the running fetch
    fetchErr,       \* error returned by the last fetch
    runtimeVersion, \* SpecVersion of the fetched RuntimeVersion (0: none)
    metadataHex,    \* the fetched metadata
    dropped,        \* the Store dropped a write of this start
    insertErr,      \* error returned by insertRuntimeVersion
    initErr,        \* error returned by Initialize
    finalizedHash,  \* VerifyDCFFinality's finalizedHash
    req,            \* VerifyDCFFinality's req, the last RPCRequest it built
    finErr,         \* error returned by VerifyDCFFinality
    cbcErr,         \* error returned by initCBCChain
    registry,       \* the metadata.Latest calls of this process, in order
    log,            \* warnings logged by this start
    trace,          \* RPC calls, sleeps, Store calls and registrations of this start
    history,        \* the summaries of the last two returned Initialize calls
    inits,          \* concurrent Initialize invocations: the position and the locals of each
    wsEndPoint,     \* util.WSEndPoint
    httpURL,        \* httpURL of the CBCInitializer of this start (none: << >>)
    HTTPEndpoint,   \* HTTPEndpoint of the last DefaultCBCConfig (none: << >>)
    palletName,     \* the name IsCBCPallet is asked about
    isCBCPallet,    \* what IsCBCPallet returned (not called: << >>)
    step,           \* clean-restart.sh: the step it is at
    binaryExists,   \* clean-restart.sh: the node binary is built
    RETRY_COUNT,    \* clean-restart.sh
    NODE_READY,     \* clean-restart.sh
    probes,         \* clean-restart.sh: system_health probes made
    waited,         \* clean-restart.sh: seconds slept between probes
    explorer,       \* the explorer services are up
    exitStatus,     \* clean-restart.sh: exit status (running: << >>)
    output          \* clean-restart.sh: what it printed

vars == << nodeFaults, store, runs, pc, networkNode, entryRecent, i, lastErr, delays, callErr, httpResp, attemptLog,
           fetchErr, runtimeVersion, metadataHex, dropped, insertErr, initErr,
           finalizedHash, req, finErr, cbcErr, registry, log, trace, history,
           inits, wsEndPoint, httpURL, HTTPEndpoint, palletName, isCBCPallet,
           step, binaryExists, RETRY_COUNT, NODE_READY, probes, waited, explorer,
           exitStatus, output >>

libraryVars == << HTTPEndpoint, palletName, isCBCPallet >>

scriptVars == << step, binaryExists, RETRY_COUNT, NODE_READY, probes, waited, explorer,
                 exitStatus, output >>

\* what a start of the service leaves alone
aside == << wsEndPoint, libraryVars, scriptVars, inits >>

\* the variables of the service
serviceVars == << nodeFaults, store, runs, pc, networkNode, entryRecent, i, lastErr, delays, callErr, httpResp,
                  attemptLog, fetchErr, runtimeVersion, metadataHex, dropped, insertErr,
                  initErr, finalizedHash, req, finErr, cbcErr, registry, log, trace, history,
                  wsEndPoint, httpURL, inits >>

storeVars == << store, dropped >>

fetchVars == << i, lastErr, delays, callErr, httpResp, attemptLog, fetchErr, runtimeVersion, metadataHex >>

finalityVars == << finalizedHash, req, finErr >>

RPCMethods == { "state_getRuntimeVersion", "state_getMetadata",
                "chain_getFinalizedHead", "chain_getBlock" }

Count(tr, events) == Cardinality({ k \in 1..Len(tr) : tr[k] \in events })

Fresh ==
    /\ runs = 0
    /\ pc = "idle"
    /\ networkNode = << >>
    /\ entryRecent = << >>
    /\ i = 0
    /\ lastErr = NoError
    /\ delays = << >>
    /\ callErr = NoError
    /\ httpResp = << >>
    /\ attemptLog = << >>
    /\ fetchErr = NoError
    /\ runtimeVersion = 0
    /\ metadataHex = << >>
    /\ dropped = FALSE
    /\ insertErr = NoError
    /\ initErr = NoError
    /\ finalizedHash = << >>
    /\ req = << >>
    /\ finErr = NoError
    /\ cbcErr = NoError
    /\ registry = << >>
    /\ log = {}
    /\ trace = << >>
    /\ history = << >>
    /\ httpURL = << >>

\* no library call made
NoCalls ==
    /\ HTTPEndpoint = << >>
    /\ palletName = ""
    /\ isCBCPallet = << >>

\* clean-restart.sh is not running
NoScript ==
    /\ step = "none"
    /\ binaryExists = TRUE
    /\ RETRY_COUNT = 0
    /\ NODE_READY = FALSE
    /\ probes = 0
    /\ waited = 0
    /\ explorer = TRUE
    /\ exitStatus = << >>
    /\ output = {}

\* one start of the service, against any node failure
Init ==
    /\ nodeFaults = HTTPFailures
    /\ store \in InitialStores
    /\ Fresh
    /\ inits = << >>
    /\ wsEndPoint = DefaultEndPoint
    /\ NoCalls
    /\ NoScript

\* restarts of the service against one Store; the node is down or answers
InitRestarts ==
    /\ nodeFaults = { HTTPReply(FALSE, 0, FALSE, FALSE, << >>, JNumber) }
    /\ store \in InitialStores
    /\ Fresh
    /\ inits = << >>
    /\ wsEndPoint = DefaultEndPoint
    /\ NoCalls
    /\ NoScript

\* ------------------------------------------------------------------------
\* service.New: a process start
\* ------------------------------------------------------------------------

Start(names) ==
    /\ runs' = runs + 1
    /\ \E n \in names : networkNode' = n
    /\ pc' = "initCBCChain"
    /\ entryRecent' = << >>
    /\ i' = 0
    /\ lastErr' = NoError
    /\ delays' = << >>
    /\ callErr' = NoError
    /\ httpResp' = << >>
    /\ attemptLog' = << >>
    /\ fetchErr' = NoError
    /\ runtimeVersion' = 0
    /\ metadataHex' = << >>
    /\ dropped' = FALSE
    /\ insertErr' = NoError
    /\ initErr' = NoError
    /\ finalizedHash' = << >>
    /\ req' = << >>
    /\ finErr' = NoError
    /\ cbcErr' = NoError
    /\ registry' = << >>
    /\ log' = {}
    /\ trace' = << >>
    /\ httpURL' = << >>
    /\ UNCHANGED << aside, nodeFaults, store, history >>

New ==
    /\ pc = "idle"
    /\ Start(NetworkNodes)

\* the process ended (New returned or panicked) and the service is started again
Restart ==
    /\ pc \in {"done", "panicked"}
    /\ runs < MaxRuns
    /\ Start(RestartNodes)

\* IsCBCNetwork with the two exact names only
IsCBCNetwork_exact(name) ==
    LET networkName == ToLower(name)
    IN  ~( networkName # <<"c", "b", "c">>
           /\ networkName # <<"c", "b", "c", "-", "c", "h", "a", "i", "n">> )

\* initCBCChain, the network check
IsCBCNetwork(name) ==
    LET networkName == ToLower(name)
    IN  ~( networkName # <<"c", "b", "c">>
           /\ networkName # <<"c", "b", "c", "-", "c", "h", "a", "i", "n">>
           /\ ~Contains(networkName, <<"c", "b", "c">>) )

initCBCChain ==
    /\ pc = "initCBCChain"
    /\ IF ~IsCBCNetwork(networkNode)
       THEN /\ cbcErr' = Errorf("not a CBC network", 0)
            /\ pc' = "cbcReturned"
            /\ UNCHANGED httpURL
       ELSE /\ httpURL' = << NewCBCInitializer(wsEndPoint) >>
            /\ pc' = "Initialize"
            /\ UNCHANGED cbcErr
    /\ UNCHANGED << aside, nodeFaults, store, runs, networkNode, entryRecent, fetchVars, dropped, insertErr,
                    initErr, finalityVars, registry, log, trace, history >>

\* ------------------------------------------------------------------------
\* CBCInitializer.Initialize
\* ------------------------------------------------------------------------

\* the summary of an Initialize that returns err after the events tr
Summary(entry, err, tr) ==
    [ entry |-> entry,
      ok |-> err = NoError,
      rpc |-> Count(tr, RPCMethods),
      writes |-> Count(tr, {"CreateRuntimeVersion", "SetRuntimeData"}) ]

\* the history after one more Initialize returned
Returned(hist, summary) ==
    IF hist = << >> THEN << summary >> ELSE << hist[Len(hist)], summary >>

\* SkipBootstrap with the prefix test inverted
SkipBootstrap_inverted(recent) == recent # << >> /\ ~HasPrefix(recent[1].RawData, Prefix0x)

\* Initialize's test of the record it reads first
SkipBootstrap(recent) == recent # << >> /\ HasPrefix(recent[1].RawData, Prefix0x)

Initialize ==
    /\ pc = "Initialize"
    /\ LET recent == RuntimeVersionRecent(store)
           tr == Append(trace, "RuntimeVersionRecent")
       IN  /\ entryRecent' = recent
           /\ trace' = tr
           /\ IF SkipBootstrap(recent)
              THEN /\ initErr' = NoError
                   /\ history' = Returned(history, Summary(recent, NoError, tr))
                   /\ pc' = "InitializeReturned"
              ELSE /\ pc' = "fetchRuntimeVersion"
                   /\ UNCHANGED << initErr, history >>
    /\ UNCHANGED << aside, httpURL, nodeFaults, store, runs, networkNode, fetchVars, dropped, insertErr,
                    finalityVars, cbcErr, registry, log >>

\* RecordAttemptError that keeps the first error instead of the last
RecordAttemptError_first(last, err) == IF last = NoError THEN err ELSE last

\* lastErr = err
RecordAttemptError(last, err) == err

\* one attempt of fetchRuntimeVersion: its error, NoError when it returns the version
VersionAttemptError(reply) ==
    LET err == makeRPCCall(reply)
    IN  IF err # NoError THEN err
        ELSE IF ~UnmarshalOk(reply.result, "RuntimeVersion")
             THEN Wrap("failed to unmarshal runtime version", 0, Errorf("json: cannot unmarshal", 0))
             ELSE NoError

\* MetadataAttemptError without the test of the "0x" prefix
MetadataAttemptError_noPrefixCheck(reply) ==
    LET err == makeRPCCall(reply)
    IN  IF err # NoError THEN err
        ELSE IF ~UnmarshalOk(reply.result, "string")
             THEN Wrap("failed to unmarshal metadata", 0, Errorf("json: cannot unmarshal", 0))
             ELSE NoError

\* one attempt of fetchMetadata: its error, NoError when it returns the metadata
MetadataAttemptError(reply) ==
    LET err == makeRPCCall(reply)
    IN  IF err # NoError THEN err
        ELSE IF ~UnmarshalOk(reply.result, "string")
             THEN Wrap("failed to unmarshal metadata", 0, Errorf("json: cannot unmarshal", 0))
             ELSE IF ~HasPrefix(reply.result.str, Prefix0x)
                  THEN Errorf("invalid metadata format: missing 0x prefix", 0)
                  ELSE NoError

\* CallEvents with a second HTTP round trip
CallEvents_twice(method) == << method, "client.Do", "client.Do" >>

\* the events of one makeRPCCall: the call, and its one HTTP round trip
CallEvents(method) == << method, "client.Do" >>

\* AttemptEvents with a sleep before the first attempt too
AttemptEvents_sleepFirst(k, method) == << "Sleep" >> \o CallEvents(method)

\* the events of one loop iteration: the sleep before every attempt but the first
AttemptEvents(k, method) ==
    IF k > 0 THEN << "Sleep" >> \o CallEvents(method) ELSE CallEvents(method)

\* AttemptDelays with a delay that grows with the attempt
AttemptDelays_growing(k) == IF k > 0 THEN << retryWait * k >> ELSE << >>

\* the sleeps of one loop iteration
AttemptDelays(k) == IF k > 0 THEN << retryWait >> ELSE << >>

fetchRuntimeVersion ==
    /\ pc = "fetchRuntimeVersion"
    /\ IF i < retries
       THEN /\ trace' = trace \o AttemptEvents(i, "state_getRuntimeVersion")
            /\ delays' = delays \o AttemptDelays(i)
            /\ log' = IF i > 0 THEN log \cup {"Retry: Fetching runtime version"} ELSE log
            /\ \E reply \in NodeReplies("state_getRuntimeVersion", nodeFaults) :
                 LET err == VersionAttemptError(reply)
                 IN  /\ callErr' = makeRPCCall(reply) /\ httpResp' = << reply >>
                     /\ IF err # NoError
                        THEN /\ lastErr' = RecordAttemptError(lastErr, err)
                             /\ attemptLog' = Append(attemptLog, err)
                             /\ i' = i + 1
                             /\ UNCHANGED << pc, fetchErr, runtimeVersion >>
                        ELSE /\ runtimeVersion' = reply.result.specVersion
                             /\ fetchErr' = NoError
                             /\ pc' = "versionFetched"
                             /\ UNCHANGED << i, lastErr, attemptLog >>
       ELSE /\ fetchErr' = Wrap("failed after %d retries", retries, lastErr)
            /\ pc' = "versionFetched"
            /\ UNCHANGED << i, lastErr, delays, callErr, httpResp, attemptLog, runtimeVersion, trace, log >>
    /\ UNCHANGED << aside, httpURL, nodeFaults, store, runs, networkNode, entryRecent, metadataHex, dropped, insertErr,
                    initErr, finalityVars, cbcErr, registry, history >>

\* versionFetched that goes on to the metadata whatever fetchRuntimeVersion returned
versionFetched_ignoreError ==
    /\ pc = "versionFetched"
    /\ IF FALSE
       THEN /\ initErr' = Wrap("failed to fetch runtime version", 0, fetchErr)
            /\ history' = Returned(history, Summary(entryRecent, fetchErr, trace))
            /\ pc' = "InitializeReturned"
       ELSE /\ pc' = "fetchMetadata"
            /\ UNCHANGED << initErr, history >>
    /\ i' = 0
    /\ lastErr' = NoError
    /\ attemptLog' = << >>
    /\ UNCHANGED << aside, httpURL, nodeFaults, store, runs, networkNode, entryRecent, delays, callErr, httpResp, fetchErr,
                    runtimeVersion, metadataHex, dropped, insertErr, finalityVars, cbcErr,
                    registry, log, trace >>

\* Initialize after fetchRuntimeVersion returned
versionFetched ==
    /\ pc = "versionFetched"
    /\ IF fetchErr # NoError
       THEN /\ initErr' = Wrap("failed to fetch runtime version", 0, fetchErr)
            /\ history' = Returned(history, Summary(entryRecent, fetchErr, trace))
            /\ pc' = "InitializeReturned"
       ELSE /\ pc' = "fetchMetadata"
            /\ UNCHANGED << initErr, history >>
    /\ i' = 0
    /\ lastErr' = NoError
    /\ attemptLog' = << >>
    /\ UNCHANGED << aside, httpURL, nodeFaults, store, runs, networkNode, entryRecent, delays, callErr, httpResp, fetchErr,
                    runtimeVersion, metadataHex, dropped, insertErr, finalityVars, cbcErr,
                    registry, log, trace >>

\* fetchMetadata with one attempt more than retries
fetchMetadata_extraAttempt ==
    /\ pc = "fetchMetadata"
    /\ IF i <= retries
       THEN /\ trace' = trace \o AttemptEvents(i, "state_getMetadata")
            /\ delays' = delays \o AttemptDelays(i)
            /\ log' = IF i > 0 THEN log \cup {"Retry: Fetching metadata"} ELSE log
            /\ \E reply \in NodeReplies("state_getMetadata", nodeFaults) :
                 LET err == MetadataAttemptError(reply)
                 IN  /\ callErr' = makeRPCCall(reply) /\ httpResp' = << reply >>
                     /\ IF err # NoError
                        THEN /\ lastErr' = RecordAttemptError(lastErr, err)
                             /\ attemptLog' = Append(attemptLog, err)
                             /\ i' = i + 1
                             /\ UNCHANGED << pc, fetchErr, metadataHex >>
                        ELSE /\ metadataHex' = reply.result.str
                             /\ fetchErr' = NoError
                             /\ pc' = "metadataFetched"
                             /\ UNCHANGED << i, lastErr, attemptLog >>
       ELSE /\ fetchErr' = Wrap("failed after %d retries", retries, lastErr)
            /\ pc' = "metadataFetched"
            /\ UNCHANGED << i, lastErr, delays, callErr, httpResp, attemptLog, metadataHex, trace, log >>
    /\ UNCHANGED << aside, httpURL, nodeFaults, store, runs, networkNode, entryRecent, runtimeVersion, dropped,
                    insertErr, initErr, finalityVars, cbcErr, registry, history >>

fetchMetadata ==
    /\ pc = "fetchMetadata"
    /\ IF i < retries
       THEN /\ trace' = trace \o AttemptEvents(i, "state_getMetadata")
            /\ delays' = delays \o AttemptDelays(i)
            /\ log' = IF i > 0 THEN log \cup {"Retry: Fetching metadata"} ELSE log
            /\ \E reply \in NodeReplies("state_getMetadata", nodeFaults) :
                 LET err == MetadataAttemptError(reply)
                 IN  /\ callErr' = makeRPCCall(reply) /\ httpResp' = << reply >>
                     /\ IF err # NoError
                        THEN /\ lastErr' = RecordAttemptError(lastErr, err)
                             /\ attemptLog' = Append(attemptLog, err)
                             /\ i' = i + 1
                             /\ UNCHANGED << pc, fetchErr, metadataHex >>
                        ELSE /\ metadataHex' = reply.result.str
                             /\ fetchErr' = NoError
                             /\ pc' = "metadataFetched"
                             /\ UNCHANGED << i, lastErr, attemptLog >>
       ELSE /\ fetchErr' = Wrap("failed after %d retries", retries, lastErr)
            /\ pc' = "metadataFetched"
            /\ UNCHANGED << i, lastErr, delays, callErr, httpResp, attemptLog, metadataHex, trace, log >>
    /\ UNCHANGED << aside, httpURL, nodeFaults, store, runs, networkNode, entryRecent, runtimeVersion, dropped,
                    insertErr, initErr, finalityVars, cbcErr, registry, history >>

\* metadataFetched that goes on to the insert whatever fetchMetadata returned
metadataFetched_ignoreError ==
    /\ pc = "metadataFetched"
    /\ IF FALSE
       THEN /\ initErr' = Wrap("failed to fetch metadata", 0, fetchErr)
            /\ history' = Returned(history, Summary(entryRecent, fetchErr, trace))
            /\ pc' = "InitializeReturned"
       ELSE /\ pc' = "insertRuntimeVersion"
            /\ UNCHANGED << initErr, history >>
    /\ i' = 0
    /\ lastErr' = NoError
    /\ attemptLog' = << >>
    /\ UNCHANGED << aside, httpURL, nodeFaults, store, runs, networkNode, entryRecent, delays, callErr, httpResp, fetchErr,
                    runtimeVersion, metadataHex, dropped, insertErr, finalityVars, cbcErr,
                    registry, log, trace >>

\* Initialize after fetchMetadata returned
metadataFetched ==
    /\ pc = "metadataFetched"
    /\ IF fetchErr # NoError
       THEN /\ initErr' = Wrap("failed to fetch metadata", 0, fetchErr)
            /\ history' = Returned(history, Summary(entryRecent, fetchErr, trace))
            /\ pc' = "InitializeReturned"
       ELSE /\ pc' = "insertRuntimeVersion"
            /\ UNCHANGED << initErr, history >>
    /\ i' = 0
    /\ lastErr' = NoError
    /\ attemptLog' = << >>
    /\ UNCHANGED << aside, httpURL, nodeFaults, store, runs, networkNode, entryRecent, delays, callErr, httpResp, fetchErr,
                    runtimeVersion, metadataHex, dropped, insertErr, finalityVars, cbcErr,
                    registry, log, trace >>

\* AlreadyInserted without the test of the metadata length
AlreadyInserted_anyLength(recent, specVersion) ==
    /\ recent # << >>
    /\ recent[1].SpecVersion = specVersion

\* AlreadyInserted that is satisfied with any record
AlreadyInserted_anyRecord(recent, specVersion) == recent # << >>

\* insertRuntimeVersion's first check: the data already exists and is correct
AlreadyInserted(recent, specVersion) ==
    /\ recent # << >>
    /\ recent[1].SpecVersion = specVersion
    /\ Len(recent[1].RawData) > MetadataLen

\* VerifyInsertError without the comparison of the spec versions
VerifyInsertError_anySpec(recent, specVersion) ==
    IF \/ recent = << >>
       \/ Len(recent[1].RawData) < MetadataLen
    THEN Errorf("failed to verify runtime data after insert - metadata not found in database", 0)
    ELSE NoError

\* insertRuntimeVersion's check after the writes: the error it returns
VerifyInsertError(recent, specVersion) ==
    IF \/ recent = << >>
       \/ recent[1].SpecVersion # specVersion
       \/ Len(recent[1].RawData) < MetadataLen
    THEN Errorf("failed to verify runtime data after insert - metadata not found in database", 0)
    ELSE NoError

insertRuntimeVersion ==
    /\ pc = "insertRuntimeVersion"
    /\ trace' = Append(trace, "RuntimeVersionRecent")
    /\ IF AlreadyInserted(RuntimeVersionRecent(store), runtimeVersion)
       THEN /\ insertErr' = NoError
            /\ pc' = "inserted"
       ELSE /\ pc' = "CreateRuntimeVersion"
            /\ UNCHANGED insertErr
    /\ UNCHANGED << aside, httpURL, nodeFaults, store, runs, networkNode, entryRecent, fetchVars, dropped, initErr,
                    finalityVars, cbcErr, registry, log, history >>

\* insertRuntimeVersion_create that skips the metadata when the creation was dropped
insertRuntimeVersion_create_stopOnFailure ==
    /\ pc = "CreateRuntimeVersion"
    /\ trace' = Append(trace, "CreateRuntimeVersion")
    /\ \E applied \in BOOLEAN :
         /\ store' = IF applied THEN CreateRuntimeVersion(store, runtimeVersion) ELSE store
         /\ dropped' = (dropped \/ ~applied)
         /\ pc' = IF applied THEN "SetRuntimeData" ELSE "verifyInsert"
    /\ UNCHANGED << aside, httpURL, nodeFaults, runs, networkNode, entryRecent, fetchVars, insertErr, initErr,
                    finalityVars, cbcErr, registry, log, history >>

\* c.dao.CreateRuntimeVersion; the Store applies the write or silently drops it
insertRuntimeVersion_create ==
    /\ pc = "CreateRuntimeVersion"
    /\ trace' = Append(trace, "CreateRuntimeVersion")
    /\ \E applied \in BOOLEAN :
         /\ store' = IF applied THEN CreateRuntimeVersion(store, runtimeVersion) ELSE store
         /\ dropped' = (dropped \/ ~applied)
    /\ pc' = "SetRuntimeData"
    /\ UNCHANGED << aside, httpURL, nodeFaults, runs, networkNode, entryRecent, fetchVars, insertErr, initErr,
                    finalityVars, cbcErr, registry, log, history >>

\* c.dao.SetRuntimeData; the Store applies the write or silently drops it
insertRuntimeVersion_setData ==
    /\ pc = "SetRuntimeData"
    /\ trace' = Append(trace, "SetRuntimeData")
    /\ \E applied \in BOOLEAN :
         /\ store' = IF applied THEN SetRuntimeData(store, runtimeVersion, metadataHex) ELSE store
         /\ dropped' = (dropped \/ ~applied)
    /\ pc' = "verifyInsert"
    /\ UNCHANGED << aside, httpURL, nodeFaults, runs, networkNode, entryRecent, fetchVars, insertErr, initErr,
                    finalityVars, cbcErr, registry, log, history >>

\* insertRuntimeVersion_verify that issues the writes once more when the check fails
insertRuntimeVersion_verify_retry ==
    /\ pc = "verifyInsert"
    /\ trace' = Append(trace, "RuntimeVersionRecent")
    /\ insertErr' = VerifyInsertError(RuntimeVersionRecent(store), runtimeVersion)
    /\ pc' = IF /\ VerifyInsertError(RuntimeVersionRecent(store), runtimeVersion) # NoError
                /\ Count(trace, {"CreateRuntimeVersion"}) < 2
             THEN "CreateRuntimeVersion"
             ELSE "inserted"
    /\ UNCHANGED << aside, httpURL, nodeFaults, store, runs, networkNode, entryRecent, fetchVars, dropped, initErr,
                    finalityVars, cbcErr, registry, log, history >>

insertRuntimeVersion_verify ==
    /\ pc = "verifyInsert"
    /\ trace' = Append(trace, "RuntimeVersionRecent")
    /\ insertErr' = VerifyInsertError(RuntimeVersionRecent(store), runtimeVersion)
    /\ pc' = "inserted"
    /\ UNCHANGED << aside, httpURL, nodeFaults, store, runs, networkNode, entryRecent, fetchVars, dropped, initErr,
                    finalityVars, cbcErr, registry, log, history >>

\* RuntimeRaw with the metadata only, under the spec version 1
RuntimeRaw_defaultSpec(spec, raw) == [Spec |-> 1, Raw |-> raw]

\* metadata.RuntimeRaw
RuntimeRaw(spec, raw) == [Spec |-> spec, Raw |-> raw]

\* inserted without the codec registration
inserted_noRegister ==
    /\ pc = "inserted"
    /\ IF insertErr # NoError
       THEN /\ initErr' = Wrap("failed to insert runtime version", 0, insertErr)
            /\ history' = Returned(history, Summary(entryRecent, insertErr, trace))
       ELSE /\ initErr' = NoError
            /\ history' = Returned(history, Summary(entryRecent, NoError, trace))
    /\ pc' = "InitializeReturned"
    /\ UNCHANGED << aside, httpURL, nodeFaults, store, runs, networkNode, entryRecent, fetchVars, dropped,
                    insertErr, finalityVars, cbcErr, registry, log, trace >>

\* Initialize after insertRuntimeVersion returned: the error, or the codec
\* registration and success
inserted ==
    /\ pc = "inserted"
    /\ IF insertErr # NoError
       THEN /\ initErr' = Wrap("failed to insert runtime version", 0, insertErr)
            /\ history' = Returned(history, Summary(entryRecent, insertErr, trace))
            /\ UNCHANGED << registry, trace >>
       ELSE /\ registry' = Append(registry, RuntimeRaw(runtimeVersion, metadataHex))
            /\ trace' = Append(trace, "metadata.Latest")
            /\ initErr' = NoError
            /\ history' = Returned(history, Summary(entryRecent, NoError, trace))
    /\ pc' = "InitializeReturned"
    /\ UNCHANGED << aside, httpURL, nodeFaults, store, runs, networkNode, entryRecent, fetchVars, dropped, insertErr,
                    finalityVars, cbcErr, log >>

\* ------------------------------------------------------------------------
\* initCBCChain after Initialize, and VerifyDCFFinality
\* ------------------------------------------------------------------------

InitializeReturned ==
    /\ pc = "InitializeReturned"
    /\ IF initErr # NoError
       THEN /\ cbcErr' = Wrap("CBC initialization failed", 0, initErr)
            /\ pc' = "cbcReturned"
       ELSE /\ pc' = "VerifyDCFFinality"
            /\ UNCHANGED cbcErr
    /\ UNCHANGED << aside, httpURL, nodeFaults, store, runs, networkNode, entryRecent, fetchVars, dropped, insertErr,
                    initErr, finalityVars, registry, log, trace, history >>

\* VerifyDCFFinality's return after chain_getFinalizedHead (NoError: it goes on)
FinalizedHeadError(reply) ==
    LET err == makeRPCCall(reply)
    IN  IF err # NoError THEN Wrap("failed to get finalized head", 0, err)
        ELSE IF ~UnmarshalOk(reply.result, "string")
             THEN Wrap("failed to unmarshal finalized hash", 0, Errorf("json: cannot unmarshal", 0))
             ELSE NoError

\* FinalizedBlockError that swallows the failure
FinalizedBlockError_swallow(reply) == NoError

\* VerifyDCFFinality's return after chain_getBlock (NoError: it goes on)
FinalizedBlockError(reply) ==
    LET err == makeRPCCall(reply)
    IN  IF err # NoError THEN Wrap("failed to get finalized block", 0, err)
        ELSE IF ~UnmarshalOk(reply.result, "map")
             THEN Wrap("failed to unmarshal block data", 0, Errorf("json: cannot unmarshal", 0))
             ELSE NoError

\* IsGenesisHash without the test of the empty hash
IsGenesisHash_suffixOnly(hash) == HasSuffix(hash, Pad("0", 60))

\* the finalized block is taken for genesis
IsGenesisHash(hash) == hash = Prefix0x \/ HasSuffix(hash, Pad("0", 60))

\* RPCRequest, its method and parameters
RPCRequest(method, params) == [Method |-> method, Params |-> params]

\* the request for the finalized head
HeadRequest == RPCRequest("chain_getFinalizedHead", << >>)

\* BlockRequest without parameters (the node then answers with its best block)
BlockRequest_noParams(hash) == RPCRequest("chain_getBlock", << >>)

\* the request for the block of the finalized hash
BlockRequest(hash) == RPCRequest("chain_getBlock", << hash >>)

VerifyDCFFinality ==
    /\ pc = "VerifyDCFFinality"
    /\ req' = << HeadRequest >>
    /\ trace' = trace \o CallEvents("chain_getFinalizedHead")
    /\ \E reply \in NodeReplies("chain_getFinalizedHead", nodeFaults) :
         LET err == FinalizedHeadError(reply)
         IN  /\ callErr' = makeRPCCall(reply) /\ httpResp' = << reply >>
             /\ IF err # NoError
                THEN /\ finErr' = err
                     /\ pc' = "finalityVerified"
                     /\ UNCHANGED finalizedHash
                ELSE /\ finalizedHash' = reply.result.str
                     /\ pc' = "chain_getBlock"
                     /\ UNCHANGED finErr
    /\ UNCHANGED << aside, httpURL, nodeFaults, store, runs, networkNode, entryRecent, i, lastErr, delays, attemptLog,
                    fetchErr, runtimeVersion, metadataHex, dropped, insertErr, initErr, cbcErr,
                    registry, log, history >>

VerifyDCFFinality_getBlock ==
    /\ pc = "chain_getBlock"
    /\ req' = << BlockRequest(finalizedHash) >>
    /\ trace' = trace \o CallEvents("chain_getBlock")
    /\ \E reply \in NodeReplies("chain_getBlock", nodeFaults) :
         LET err == FinalizedBlockError(reply)
         IN  /\ callErr' = makeRPCCall(reply) /\ httpResp' = << reply >>
             /\ finErr' = err
             /\ log' = IF err # NoError THEN log
                       ELSE IF IsGenesisHash(finalizedHash)
                            THEN log \cup {"WARNING: Finalized head appears to be genesis block"}
                            ELSE log \cup {"DCF finality verification passed"}
    /\ pc' = "finalityVerified"
    /\ UNCHANGED << aside, httpURL, nodeFaults, store, runs, networkNode, entryRecent, i, lastErr, delays, attemptLog,
                    fetchErr, runtimeVersion, metadataHex, dropped, insertErr, initErr,
                    finalizedHash, cbcErr, registry, history >>

\* finalityVerified that returns the finality error to New
finalityVerified_escalate ==
    /\ pc = "finalityVerified"
    /\ cbcErr' = IF finErr # NoError
                 THEN Wrap("DCF finality verification failed", 0, finErr)
                 ELSE NoError
    /\ pc' = "cbcReturned"
    /\ UNCHANGED << aside, httpURL, nodeFaults, store, runs, networkNode, entryRecent, fetchVars, dropped,
                    insertErr, initErr, finalityVars, registry, log, trace, history >>

\* initCBCChain after VerifyDCFFinality returned
finalityVerified ==
    /\ pc = "finalityVerified"
    /\ log' = IF finErr # NoError THEN log \cup {"DCF finality verification warning"} ELSE log
    /\ cbcErr' = NoError
    /\ pc' = "cbcReturned"
    /\ UNCHANGED << aside, httpURL, nodeFaults, store, runs, networkNode, entryRecent, fetchVars, dropped, insertErr,
                    initErr, finalityVars, registry, trace, history >>

\* ------------------------------------------------------------------------
\* service.New after initCBCChain
\* ------------------------------------------------------------------------

\* cbcReturned that aborts the start on an error of initCBCChain
cbcReturned_abort ==
    /\ pc = "cbcReturned"
    /\ IF cbcErr # NoError
       THEN /\ log' = log \cup {"CBC initialization warning"}
            /\ pc' = "panicked"
       ELSE /\ pc' = "initSubRuntimeLatestWithoutFetch"
            /\ UNCHANGED log
    /\ UNCHANGED << aside, httpURL, nodeFaults, store, runs, networkNode, entryRecent, fetchVars, dropped,
                    insertErr, initErr, finalityVars, cbcErr, registry, trace, history >>

cbcReturned ==
    /\ pc = "cbcReturned"
    /\ IF cbcErr # NoError
       THEN /\ log' = log \cup {"CBC initialization warning"}
            /\ pc' = "initSubRuntimeLatest"
       ELSE /\ pc' = "initSubRuntimeLatestWithoutFetch"
            /\ UNCHANGED log
    /\ UNCHANGED << aside, httpURL, nodeFaults, store, runs, networkNode, entryRecent, fetchVars, dropped, insertErr,
                    initErr, finalityVars, cbcErr, registry, trace, history >>

\* the record the follow-up initialization loads from the database
LoadsFromDatabase(recent) == recent # << >> /\ HasPrefix(recent[1].RawData, Prefix0x)

initSubRuntimeLatestWithoutFetch ==
    /\ pc = "initSubRuntimeLatestWithoutFetch"
    /\ LET recent == RuntimeVersionRecent(store)
           tr == trace \o << "initSubRuntimeLatestWithoutFetch", "RuntimeVersionRecent" >>
       IN  IF LoadsFromDatabase(recent)
           THEN /\ registry' = Append(registry, RuntimeRaw(recent[1].SpecVersion, recent[1].RawData))
                /\ trace' = Append(tr, "metadata.Latest")
                /\ pc' = "done"
                /\ UNCHANGED log
           ELSE /\ log' = log \cup {"CBC initialization succeeded but no metadata found in database"}
                /\ trace' = tr
                /\ pc' = "initSubRuntimeLatest"
                /\ UNCHANGED registry
    /\ UNCHANGED << aside, httpURL, nodeFaults, store, runs, networkNode, entryRecent, fetchVars, dropped, insertErr,
                    initErr, finalityVars, cbcErr, history >>

initSubRuntimeLatest ==
    /\ pc = "initSubRuntimeLatest"
    /\ LET recent == RuntimeVersionRecent(store)
           tr == trace \o << "initSubRuntimeLatest", "RuntimeVersionRecent" >>
       IN  IF LoadsFromDatabase(recent)
           THEN /\ registry' = Append(registry, RuntimeRaw(recent[1].SpecVersion, recent[1].RawData))
                /\ trace' = Append(tr, "metadata.Latest")
                /\ pc' = "done"
                /\ UNCHANGED i
           ELSE /\ trace' = tr
                /\ pc' = "regCodecMetadata"
                /\ i' = 0
                /\ UNCHANGED registry
    /\ UNCHANGED << aside, httpURL, nodeFaults, store, runs, networkNode, entryRecent, lastErr, delays, callErr, httpResp, attemptLog, fetchErr,
                    runtimeVersion, metadataHex, dropped, insertErr, initErr, finalityVars,
                    cbcErr, log, history >>

\* what s.regCodecMetadata() may return: the chain's metadata or nothing
GenericTexts == { Prefix0x \o Pad("a", MetadataLen), << >> }

\* the loop of initSubRuntimeLatest over regCodecMetadata, and its panic
initSubRuntimeLatest_fetch ==
    /\ pc = "regCodecMetadata"
    /\ IF i < GenericAttempts
       THEN \E raw \in GenericTexts :
              IF HasPrefix(raw, Prefix0x)
              THEN /\ registry' = Append(registry, RuntimeRaw(1, raw))
                   /\ trace' = trace \o << "regCodecMetadata", "metadata.Latest" >>
                   /\ pc' = "done"
                   /\ UNCHANGED << i, log >>
              ELSE /\ log' = log \cup {"regCodecMetadata failed, retrying"}
                   /\ trace' = Append(trace, "regCodecMetadata")
                   /\ i' = i + 1
                   /\ UNCHANGED << pc, registry >>
       ELSE /\ log' = log \cup {"regCodecMetadata failed after 3 attempts"}
            /\ pc' = "panicked"
            /\ UNCHANGED << i, registry, trace >>
    /\ UNCHANGED << aside, httpURL, nodeFaults, store, runs, networkNode, entryRecent, lastErr, delays, callErr, httpResp, attemptLog, fetchErr,
                    runtimeVersion, metadataHex, dropped, insertErr, initErr, finalityVars,
                    cbcErr, history >>

\* ------------------------------------------------------------------------
\* One makeRPCCall, against any HTTP exchange
\* ------------------------------------------------------------------------

Call ==
    /\ httpResp = << >>
    /\ \E method \in RPCMethods : trace' = trace \o CallEvents(method)
    /\ \E reply \in AllReplies :
         callErr' = makeRPCCall(reply) /\ httpResp' = << reply >>
    /\ UNCHANGED << aside, httpURL, nodeFaults, store, runs, pc, networkNode, entryRecent, i,
                    lastErr, delays, attemptLog, fetchErr, runtimeVersion, metadataHex, dropped,
                    insertErr, initErr, finalityVars, cbcErr, registry, log, history >>

\* ------------------------------------------------------------------------
\* The cbc package's configuration helpers
\* ------------------------------------------------------------------------

DefaultCBCConfig ==
    /\ HTTPEndpoint = << >>
    /\ HTTPEndpoint' = << convertWSToHTTP(wsEndPoint) >>
    /\ UNCHANGED << serviceVars, palletName, isCBCPallet, scriptVars >>

\* a call of IsCBCPallet(palletName)
IsCBCPallet_call ==
    /\ isCBCPallet = << >>
    /\ isCBCPallet' = << IsCBCPallet(palletName) >>
    /\ UNCHANGED << serviceVars, HTTPEndpoint, palletName, scriptVars >>

\* ------------------------------------------------------------------------
\* clean-restart.sh
\* ------------------------------------------------------------------------

\* Step 1: docker-compose down, which may fail
Step1_StopServices ==
    /\ step = "Step 1"
    /\ \E down \in BOOLEAN : explorer' = IF down THEN FALSE ELSE explorer
    /\ step' = "Step 2"
    /\ UNCHANGED << serviceVars, libraryVars, binaryExists, RETRY_COUNT, NODE_READY, probes,
                    waited, exitStatus, output >>

Step2_ResetDatabase ==
    /\ step = "Step 2"
    /\ output' = output \cup {"Database reset"}
    /\ step' = "Step 3"
    /\ UNCHANGED << serviceVars, libraryVars, binaryExists, RETRY_COUNT, NODE_READY, probes,
                    waited, explorer, exitStatus >>

Step3_ClearRedis ==
    /\ step = "Step 3"
    /\ \E cleared \in BOOLEAN :
         output' = output \cup { IF cleared THEN "Redis cache cleared"
                                 ELSE "Warning: Could not clear Redis cache" }
    /\ step' = "Step 4"
    /\ UNCHANGED << serviceVars, libraryVars, binaryExists, RETRY_COUNT, NODE_READY, probes,
                    waited, explorer, exitStatus >>

\* Step 4, and the assignments that open Step 5
Step4_StartNode ==
    /\ step = "Step 4"
    /\ IF ~binaryExists
       THEN /\ output' = output \cup {"Error: CBC node binary not found"}
            /\ exitStatus' = << 1 >>
            /\ step' = "exited"
            /\ UNCHANGED << RETRY_COUNT, NODE_READY >>
       ELSE /\ output' = output \cup {"CBC node started"}
            /\ RETRY_COUNT' = 0
            /\ NODE_READY' = FALSE
            /\ step' = "Step 5"
            /\ UNCHANGED exitStatus
    /\ UNCHANGED << serviceVars, libraryVars, binaryExists, probes, waited, explorer >>

\* Step 5: one evaluation of the loop condition and one probe of system_health
Step5_WaitForNode ==
    /\ step = "Step 5"
    /\ IF RETRY_COUNT < MAX_RETRIES
       THEN /\ probes' = probes + 1
            /\ \E responding \in BOOLEAN :
                 IF responding
                 THEN /\ NODE_READY' = TRUE
                      /\ output' = output \cup {"CBC node is ready"}
                      /\ step' = "Step 5 check"
                      /\ UNCHANGED << RETRY_COUNT, waited >>
                 ELSE /\ RETRY_COUNT' = RETRY_COUNT + 1
                      /\ waited' = waited + ProbeSleep
                      /\ UNCHANGED << NODE_READY, output, step >>
       ELSE /\ step' = "Step 5 check"
            /\ UNCHANGED << RETRY_COUNT, NODE_READY, probes, waited, output >>
    /\ UNCHANGED << serviceVars, libraryVars, binaryExists, explorer, exitStatus >>

\* Step5_check that goes on to Step 6 whatever NODE_READY is
Step5_check_noExit ==
    /\ step = "Step 5 check"
    /\ step' = "Step 6"
    /\ UNCHANGED << serviceVars, libraryVars, binaryExists, RETRY_COUNT, NODE_READY, probes,
                    waited, explorer, exitStatus, output >>

\* Step 5 after the loop
Step5_check ==
    /\ step = "Step 5 check"
    /\ IF NODE_READY = FALSE
       THEN /\ output' = output \cup {"Error: CBC node failed to become ready"}
            /\ exitStatus' = << 1 >>
            /\ step' = "exited"
       ELSE /\ step' = "Step 6"
            /\ UNCHANGED << exitStatus, output >>
    /\ UNCHANGED << serviceVars, libraryVars, binaryExists, RETRY_COUNT, NODE_READY, probes,
                    waited, explorer >>

\* Step 6: docker-compose up -d, which may fail
Step6_StartExplorer ==
    /\ step = "Step 6"
    /\ output' = output \cup {"Step 6: Starting explorer services..."}
    /\ \E up \in BOOLEAN : explorer' = IF up THEN TRUE ELSE explorer
    /\ step' = "Step 7"
    /\ UNCHANGED << serviceVars, libraryVars, binaryExists, RETRY_COUNT, NODE_READY, probes,
                    waited, exitStatus >>

\* Steps 7 and 8: the wait and the observer's log
Step8_CheckObserver ==
    /\ step = "Step 7"
    /\ \E panic \in BOOLEAN :
         output' = output \cup { IF panic THEN "Warning: Observer encountered errors during startup"
                                 ELSE "Observer started successfully" }
    /\ step' = "Step 9"
    /\ UNCHANGED << serviceVars, libraryVars, binaryExists, RETRY_COUNT, NODE_READY, probes,
                    waited, explorer, exitStatus >>

\* Steps 9 and 10: the wait, the block count, and the end of the script
Step10_VerifyIndexing ==
    /\ step = "Step 9"
    /\ \E BLOCK_COUNT \in 0..1 :
         output' = output \cup { IF BLOCK_COUNT > 0 THEN "Blocks are being indexed successfully"
                                 ELSE "Warning: No blocks indexed yet" }
    /\ exitStatus' = << 0 >>
    /\ step' = "exited"
    /\ UNCHANGED << serviceVars, libraryVars, binaryExists, RETRY_COUNT, NODE_READY, probes,
                    waited, explorer >>

\* ------------------------------------------------------------------------
\* Specification
\* ------------------------------------------------------------------------

Next ==
    \/ New
    \/ initCBCChain
    \/ Initialize
    \/ fetchRuntimeVersion
    \/ versionFetched
    \/ fetchMetadata
    \/ metadataFetched
    \/ insertRuntimeVersion
    \/ insertRuntimeVersion_create
    \/ insertRuntimeVersion_setData
    \/ insertRuntimeVersion_verify
    \/ inserted
    \/ InitializeReturned
    \/ VerifyDCFFinality
    \/ VerifyDCFFinality_getBlock
    \/ finalityVerified
    \/ cbcReturned
    \/ initSubRuntimeLatestWithoutFetch
    \/ initSubRuntimeLatest
    \/ initSubRuntimeLatest_fetch

Spec == Init /\ [][Next]_vars

NextRestarts == Next \/ Restart

SpecRestarts == InitRestarts /\ [][NextRestarts]_vars

\* the steps of Initialize: each of them is one RPC call, one delay or one
\* Store call that returns, or a step of the function itself
InitializeSteps ==
    \/ Initialize
    \/ fetchRuntimeVersion
    \/ versionFetched
    \/ fetchMetadata
    \/ metadataFetched
    \/ insertRuntimeVersion
    \/ insertRuntimeVersion_create
    \/ insertRuntimeVersion_setData
    \/ insertRuntimeVersion_verify
    \/ inserted

\* the service when every call made by Initialize returns
SpecFair == Init /\ [][Next]_vars /\ WF_vars(InitializeSteps)

\* one call of the RPC client
InitCall ==
    /\ nodeFaults = HTTPFailures
    /\ store = << >>
    /\ Fresh
    /\ inits = << >>
    /\ wsEndPoint = DefaultEndPoint
    /\ NoCalls
    /\ NoScript

NextCall == Call

SpecCall == InitCall /\ [][NextCall]_vars

\* the construction of the initializer and of the configuration, for any endpoint
InitConfig ==
    /\ nodeFaults = HTTPFailures
    /\ store = << >>
    /\ Fresh
    /\ inits = << >>
    /\ wsEndPoint \in EndPoints
    /\ HTTPEndpoint = << >>
    /\ palletName \in PalletNames
    /\ isCBCPallet = << >>
    /\ NoScript

NextConfig ==
    \/ New
    \/ initCBCChain
    \/ DefaultCBCConfig
    \/ IsCBCPallet_call

SpecConfig == InitConfig /\ [][NextConfig]_vars

\* one run of clean-restart.sh
InitScript ==
    /\ nodeFaults = HTTPFailures
    /\ store = << >>
    /\ Fresh
    /\ inits = << >>
    /\ wsEndPoint = DefaultEndPoint
    /\ NoCalls
    /\ step = "Step 1"
    /\ binaryExists \in BOOLEAN
    /\ RETRY_COUNT = 0
    /\ NODE_READY = FALSE
    /\ probes = 0
    /\ waited = 0
    /\ explorer \in BOOLEAN
    /\ exitStatus = << >>
    /\ output = {}

NextScript ==
    \/ Step1_StopServices
    \/ Step2_ResetDatabase
    \/ Step3_ClearRedis
    \/ Step4_StartNode
    \/ Step5_WaitForNode
    \/ Step5_check
    \/ Step6_StartExplorer
    \/ Step8_CheckObserver
    \/ Step10_VerifyIndexing

SpecScript == InitScript /\ [][NextScript]_vars

\* ------------------------------------------------------------------------
\* Two Initialize invocations that run concurrently against one Store. A step
\* is one call that reads or writes what the invocations share (the Store,
\* the node, the codec registry) together with the local code that follows it.
\* ------------------------------------------------------------------------

Invocations == {1, 2}

\* the locals of an invocation that enters Initialize
Entering ==
    [ pc |-> "Initialize", i |-> 0, lastErr |-> NoError, runtimeVersion |-> 0,
      metadataHex |-> << >>, recent |-> << >>, storeCalls |-> << >>, dropped |-> FALSE,
      err |-> NoError ]

\* what the sequential service keeps while the invocations run
sequentialVars ==
    << runs, pc, networkNode, entryRecent, fetchVars, dropped, insertErr, initErr, finalityVars,
       cbcErr, log, trace, history, wsEndPoint, httpURL, libraryVars, scriptVars, nodeFaults >>

InitConcurrent ==
    /\ nodeFaults = { HTTPReply(FALSE, 0, FALSE, FALSE, << >>, JNumber) }
    /\ store \in InitialStores
    /\ Fresh
    /\ inits = [p \in Invocations |-> Entering]
    /\ wsEndPoint = DefaultEndPoint
    /\ NoCalls
    /\ NoScript

\* Initialize up to its decision on the record it reads first
Concurrent_Initialize ==
    \E p \in Invocations :
      /\ inits[p].pc = "Initialize"
      /\ LET recent == RuntimeVersionRecent(store)
         IN  inits' = [inits EXCEPT ![p] =
                 [@ EXCEPT !.storeCalls = Append(@, "RuntimeVersionRecent"),
                           !.pc = IF SkipBootstrap(recent) THEN "returned"
                                  ELSE "fetchRuntimeVersion"]]
      /\ UNCHANGED << sequentialVars, store, registry >>

\* one iteration of fetchRuntimeVersion's loop, or its return after the last one
Concurrent_fetchRuntimeVersion ==
    \E p \in Invocations :
      /\ inits[p].pc = "fetchRuntimeVersion"
      /\ IF inits[p].i < retries
         THEN \E reply \in NodeReplies("state_getRuntimeVersion", nodeFaults) :
                LET err == VersionAttemptError(reply)
                IN  inits' = [inits EXCEPT ![p] =
                        IF err # NoError
                        THEN [@ EXCEPT !.lastErr = RecordAttemptError(@, err), !.i = @ + 1]
                        ELSE [@ EXCEPT !.runtimeVersion = reply.result.specVersion,
                                       !.lastErr = NoError, !.i = 0,
                                       !.pc = "fetchMetadata"]]
         ELSE inits' = [inits EXCEPT ![p] =
                  [@ EXCEPT !.err = Wrap("failed to fetch runtime version", 0,
                                         Wrap("failed after %d retries", retries, inits[p].lastErr)),
                            !.pc = "returned"]]
      /\ UNCHANGED << sequentialVars, store, registry >>

\* one iteration of fetchMetadata's loop, or its return after the last one
Concurrent_fetchMetadata ==
    \E p \in Invocations :
      /\ inits[p].pc = "fetchMetadata"
      /\ IF inits[p].i < retries
         THEN \E reply \in NodeReplies("state_getMetadata", nodeFaults) :
                LET err == MetadataAttemptError(reply)
                IN  inits' = [inits EXCEPT ![p] =
                        IF err # NoError
                        THEN [@ EXCEPT !.lastErr = RecordAttemptError(@, err), !.i = @ + 1]
                        ELSE [@ EXCEPT !.metadataHex = reply.result.str,
                                       !.lastErr = NoError, !.i = 0,
                                       !.pc = "insertRuntimeVersion"]]
         ELSE inits' = [inits EXCEPT ![p] =
                  [@ EXCEPT !.err = Wrap("failed to fetch metadata", 0,
                                         Wrap("failed after %d retries", retries, inits[p].lastErr)),
                            !.pc = "returned"]]
      /\ UNCHANGED << sequentialVars, store, registry >>

\* insertRuntimeVersion's first read and check; when the record is there it
\* returns, and Initialize registers the codec and returns
Concurrent_insertRuntimeVersion ==
    \E p \in Invocations :
      /\ inits[p].pc = "insertRuntimeVersion"
      /\ LET recent == RuntimeVersionRecent(store)
             found == AlreadyInserted(recent, inits[p].runtimeVersion)
         IN  /\ inits' = [inits EXCEPT ![p] =
                   [@ EXCEPT !.recent = recent,
                             !.storeCalls = Append(@, "RuntimeVersionRecent"),
                             !.pc = IF found THEN "returned" ELSE "CreateRuntimeVersion"]]
             /\ registry' = IF found
                            THEN Append(registry, RuntimeRaw(inits[p].runtimeVersion,
                                                             inits[p].metadataHex))
                            ELSE registry
      /\ UNCHANGED << sequentialVars, store >>

\* c.dao.CreateRuntimeVersion; the Store applies the write or silently drops it
Concurrent_create ==
    \E p \in Invocations :
      /\ inits[p].pc = "CreateRuntimeVersion"
      /\ \E applied \in BOOLEAN :
           /\ store' = IF applied THEN CreateRuntimeVersion(store, inits[p].runtimeVersion)
                       ELSE store
           /\ inits' = [inits EXCEPT ![p] =
                 [@ EXCEPT !.storeCalls = Append(@, "CreateRuntimeVersion"),
                           !.dropped = (@ \/ ~applied),
                           !.pc = "SetRuntimeData"]]
      /\ UNCHANGED << sequentialVars, registry >>

\* c.dao.SetRuntimeData; the Store applies the write or silently drops it
Concurrent_setData ==
    \E p \in Invocations :
      /\ inits[p].pc = "SetRuntimeData"
      /\ \E applied \in BOOLEAN :
           /\ store' = IF applied
                       THEN SetRuntimeData(store, inits[p].runtimeVersion, inits[p].metadataHex)
                       ELSE store
           /\ inits' = [inits EXCEPT ![p] =
                 [@ EXCEPT !.storeCalls = Append(@, "SetRuntimeData"),
                           !.dropped = (@ \/ ~applied),
                           !.pc = "verifyInsert"]]
      /\ UNCHANGED << sequentialVars, registry >>

\* insertRuntimeVersion's read after the writes and its check, and Initialize's
\* return: the wrapped error, or the codec registration and success
Concurrent_verify ==
    \E p \in Invocations :
      /\ inits[p].pc = "verifyInsert"
      /\ LET err == VerifyInsertError(RuntimeVersionRecent(store), inits[p].runtimeVersion)
         IN  /\ inits' = [inits EXCEPT ![p] =
                   [@ EXCEPT !.storeCalls = Append(@, "RuntimeVersionRecent"),
                             !.err = IF err # NoError
                                     THEN Wrap("failed to insert runtime version", 0, err)
                                     ELSE NoError,
                             !.pc = "returned"]]
             /\ registry' = IF err # NoError THEN registry
                            ELSE Append(registry, RuntimeRaw(inits[p].runtimeVersion,
                                                             inits[p].metadataHex))
      /\ UNCHANGED << sequentialVars, store >>

NextConcurrent ==
    \/ Concurrent_Initialize
    \/ Concurrent_fetchRuntimeVersion
    \/ Concurrent_fetchMetadata
    \/ Concurrent_insertRuntimeVersion
    \/ Concurrent_create
    \/ Concurrent_setData
    \/ Concurrent_verify

SpecConcurrent == InitConcurrent /\ [][NextConcurrent]_vars

\* ------------------------------------------------------------------------
\* Properties
\* ------------------------------------------------------------------------

\* a record is valid: it exists, its metadata begins with "0x" and is longer
\* than 100 characters
IsValidRecord(recent) ==
    /\ recent # << >>
    /\ HasPrefix(recent[1].RawData, Prefix0x)
    /\ Len(recent[1].RawData) > 100

Has(tr, event) == Count(tr, {event}) > 0

\* C1: when the Store holds a valid record, two Initialize calls in succession
\* both return success and the second makes no RPC call and no Store write.
C1_Idempotence ==
    (Len(history) = 2 /\ IsValidRecord(history[1].entry))
        => /\ history[1].ok
           /\ history[2].ok
           /\ history[2].rpc = 0
           /\ history[2].writes = 0

C1_Witness ==
    /\ pc = "InitializeReturned"
    /\ Len(history) = 2
    /\ IsValidRecord(history[1].entry)
    /\ history[2].ok
    /\ history[2].rpc = 0

\* Initialize has just read the most recent record and decided
JustDecided == Len(trace) = 1 /\ pc \in {"fetchRuntimeVersion", "InitializeReturned"}

\* C2: the validity check accepts every record with the "0x" prefix and more
\* than 100 characters, and sends every record that lacks the prefix or is
\* shorter than 100 characters to the bootstrap.
C2_ValidityCheck ==
    JustDecided =>
        /\ IsValidRecord(entryRecent) => pc = "InitializeReturned"
        /\ ( /\ entryRecent # << >>
             /\ \/ ~HasPrefix(entryRecent[1].RawData, Prefix0x)
                \/ Len(entryRecent[1].RawData) < 100 )
              => pc = "fetchRuntimeVersion"

\* C3: whenever Initialize returns success, the most recent record of the
\* Store is valid.
C3_SuccessLeavesValidRecord ==
    (pc = "InitializeReturned" /\ initErr = NoError)
        => IsValidRecord(RuntimeVersionRecent(store))

RetriesExhausted == Wrap("failed after %d retries", 3, << >>)

\* C4: a fetch whose every attempt fails makes exactly 3 calls of its method,
\* never a fourth, and Initialize returns a failure that names the 3 attempts
\* and wraps the cause of the third attempt.
C4_RetryExhaustion ==
    /\ Count(trace, {"state_getRuntimeVersion"}) <= 3
    /\ Count(trace, {"state_getMetadata"}) <= 3
    /\ (pc = "versionFetched" /\ fetchErr # NoError)
          => /\ Count(trace, {"state_getRuntimeVersion"}) = 3
             /\ Len(attemptLog) = 3
             /\ fetchErr = RetriesExhausted \o attemptLog[3]
    /\ (pc = "metadataFetched" /\ fetchErr # NoError)
          => /\ Count(trace, {"state_getMetadata"}) = 3
             /\ Len(attemptLog) = 3
             /\ fetchErr = RetriesExhausted \o attemptLog[3]
    /\ (pc = "InitializeReturned" /\ fetchErr # NoError)
          => /\ initErr # NoError
             /\ SubSeq(initErr, 2, Len(initErr)) = fetchErr
             /\ initErr[2] = RetriesExhausted[1]

C4_Witness ==
    /\ pc = "metadataFetched"
    /\ fetchErr # NoError
    /\ Len(attemptLog) = 3
    /\ attemptLog[1] # attemptLog[3]
    /\ attemptLog[2] # attemptLog[3]

\* every error Initialize can return for a failed fetch
FetchFailures ==
    { Wrap("failed to fetch runtime version", 0, RetriesExhausted \o VersionAttemptError(r)) :
        r \in NodeReplies("state_getRuntimeVersion", HTTPFailures) }
    \cup
    { Wrap("failed to fetch metadata", 0, RetriesExhausted \o MetadataAttemptError(r)) :
        r \in NodeReplies("state_getMetadata", HTTPFailures) }

\* both writes were issued, the Store dropped one, and the record read after
\* them is absent, of another spec version or shorter than 100 characters
WritesLost ==
    /\ Has(trace, "SetRuntimeData")
    /\ dropped
    /\ LET recent == RuntimeVersionRecent(store)
       IN  \/ recent = << >>
           \/ recent[1].SpecVersion # runtimeVersion
           \/ Len(recent[1].RawData) < 100

C6_BootstrapRunsOnce ==
    (Len(history) = 2 /\ history[1].ok)
        => (history[2].ok /\ history[2].rpc = 0)

\* Initialize ran the bootstrap and returned success
BootstrapSucceeded ==
    /\ Len(history) = 1
    /\ history[1].ok
    /\ history[1].rpc > 0

\* C7 as stated: a start that completes after a successful bootstrap has
\* invoked the codec registration exactly once.
C7_RegisteredOnce ==
    (pc = "done" /\ BootstrapSucceeded) => Len(registry) = 1

\* C7: Initialize invokes the codec registration exactly once per successful
\* bootstrap, with the fetched values, and not at all when it skips or fails;
\* the follow-up initialization of the service invokes it once more, so a
\* start that completes after a successful bootstrap has invoked it twice.
C7_RegisteredOncePerInitialize ==
    /\ pc = "InitializeReturned"
          => registry = IF BootstrapSucceeded
                        THEN << RuntimeRaw(runtimeVersion, metadataHex) >>
                        ELSE << >>
    /\ (pc = "done" /\ BootstrapSucceeded) => Len(registry) = 2

C7_Witness ==
    /\ pc = "done"
    /\ BootstrapSucceeded
    /\ Len(registry) = 2

\* C8 as stated: after a failure of Initialize the start never aborts.
C8_StartupNeverAborts ==
    initErr # NoError => pc # "panicked"

\* C8: a failure of Initialize never stops the start by itself: New logs a
\* warning and falls back to initSubRuntimeLatest, and the start then
\* completes unless that generic path finds no metadata in the Store and in
\* 3 attempts of its own fetch, where it panics.
C8_FallsBackToGeneric ==
    (initErr # NoError /\ pc \in {"initSubRuntimeLatest", "regCodecMetadata", "done", "panicked"})
        => /\ cbcErr # NoError
           /\ "CBC initialization warning" \in log
           /\ ~Has(trace, "initSubRuntimeLatestWithoutFetch")
           /\ pc # "initSubRuntimeLatest" => Has(trace, "initSubRuntimeLatest")
           /\ pc = "panicked"
                 => /\ ~LoadsFromDatabase(RuntimeVersionRecent(store))
                    /\ Count(trace, {"regCodecMetadata"}) = 3
                    /\ ~Has(trace, "metadata.Latest")
           /\ pc = "done" => Len(registry) = 1

C8_Witness ==
    /\ pc = "done"
    /\ initErr # NoError
    /\ Has(trace, "regCodecMetadata")
    /\ "CBC initialization warning" \in log

FinalityVerdicts ==
    { "WARNING: Finalized head appears to be genesis block",
      "DCF finality verification passed" }

\* C9 as stated: VerifyDCFFinality never returns an error to its caller.
C9_NeverReturnsError ==
    pc = "finalityVerified" => finErr = NoError

\* C9: VerifyDCFFinality returns an error to its caller when one of its two
\* calls fails or its result does not parse; initCBCChain logs that error as
\* a warning and does not return it.
C9_ErrorSwallowedByCaller ==
    /\ pc = "chain_getBlock" => callErr = NoError
    /\ pc = "finalityVerified"
          => /\ callErr # NoError
                   => (finErr # NoError /\ SubSeq(finErr, 2, Len(finErr)) = callErr)
             /\ (finErr = NoError) <=> (log \cap FinalityVerdicts # {})
    /\ (pc \in {"cbcReturned", "initSubRuntimeLatestWithoutFetch", "done"} /\ finErr # NoError)
          => /\ "DCF finality verification warning" \in log
             /\ cbcErr = NoError

C9_Witness ==
    /\ pc = "cbcReturned"
    /\ finErr # NoError
    /\ callErr # NoError
    /\ Has(trace, "chain_getBlock")

\* C10: whatever VerifyDCFFinality returns, initCBCChain returns success once
\* Initialize has succeeded, and New takes the branch of the CBC success.
C10_FinalityNeverFailsStartup ==
    (Len(history) = 1 /\ history[1].ok
       /\ pc \in {"cbcReturned", "initSubRuntimeLatestWithoutFetch", "initSubRuntimeLatest",
                  "regCodecMetadata", "done", "panicked"})
        => /\ cbcErr = NoError
           /\ "CBC initialization warning" \notin log
           /\ pc \notin {"cbcReturned", "initSubRuntimeLatestWithoutFetch"}
                 => Has(trace, "initSubRuntimeLatestWithoutFetch")

C10_Witness ==
    /\ pc = "done"
    /\ Len(history) = 1
    /\ history[1].ok
    /\ finErr # NoError
    /\ Has(trace, "initSubRuntimeLatestWithoutFetch")

\* VerifyDCFFinality made both calls, both succeeded, and it classified the hash
Classified == pc = "finalityVerified" /\ Has(trace, "chain_getBlock") /\ finErr = NoError

GenesisWarning == "WARNING: Finalized head appears to be genesis block"

FinalityPassed == "DCF finality verification passed"

WellFormedHash(hash) == HasPrefix(hash, Prefix0x) /\ Len(hash) = 66

\* C12: when both calls succeed and the finalized head is a well-formed hash
\* other than the all-zero one, VerifyDCFFinality logs the success and not
\* the warning.
C12_OtherHashPasses ==
    (Classified /\ WellFormedHash(finalizedHash) /\ finalizedHash # ZeroHash)
        => (FinalityPassed \in log /\ GenesisWarning \notin log)

\* the positions of the calls of an RPC method in the trace
Calls(method) == { k \in 1..Len(trace) : trace[k] = method }

\* fetchRuntimeVersion returned without a version, all its attempts spent
VersionExhausted ==
    /\ Cardinality(Calls("state_getRuntimeVersion")) = retries
    /\ runtimeVersion = 0
    /\ pc # "fetchRuntimeVersion"

\* C19: every state_getMetadata call of an Initialize comes after a
\* state_getRuntimeVersion call that returned a version; when the version
\* fetch spent all its attempts no state_getMetadata call is made and
\* Initialize returns an error.
C19_FetchOrdering ==
    /\ Calls("state_getMetadata") # {}
          => /\ runtimeVersion # 0
             /\ \E v \in Calls("state_getRuntimeVersion") :
                  \A m \in Calls("state_getMetadata") : v < m
    /\ VersionExhausted
          => /\ Calls("state_getMetadata") = {}
             /\ pc # "versionFetched" => initErr # NoError

C19_Witness ==
    /\ VersionExhausted
    /\ pc = "InitializeReturned"
    /\ initErr # NoError

\* C20: each fetch makes at most retries (3) attempts and none after its
\* first success, so an Initialize makes at most 6 fetch calls; the metadata
\* fetch counts its own attempts from zero whatever the version fetch spent,
\* and no state_getRuntimeVersion call follows a state_getMetadata call.
C20_IndependentBoundedRetry ==
    /\ Cardinality(Calls("state_getRuntimeVersion")) <= retries
    /\ Cardinality(Calls("state_getMetadata")) <= retries
    /\ Count(trace, {"state_getRuntimeVersion", "state_getMetadata"}) <= 2 * retries
    /\ pc = "fetchRuntimeVersion" => runtimeVersion = 0
    /\ pc = "fetchMetadata"
          => /\ metadataHex = << >>
             /\ i = Cardinality(Calls("state_getMetadata"))
    /\ \A m \in Calls("state_getMetadata") :
          \A v \in Calls("state_getRuntimeVersion") : v < m

C20_Witness ==
    /\ Cardinality(Calls("state_getRuntimeVersion")) = retries
    /\ Cardinality(Calls("state_getMetadata")) = retries
    /\ pc = "InitializeReturned"
    /\ initErr # NoError

\* the lower-cased chain identifier contains "cbc"
Applicable(name) == Contains(ToLower(name), <<"c", "b", "c">>)

NotApplicable == Errorf("not a CBC network", 0)

\* initCBCChain has made its network check
NetworkChecked == pc \notin {"idle", "initCBCChain"}

C14_NotApplicableIsNoError ==
    (NetworkChecked /\ ~Applicable(networkNode))
        => /\ cbcErr = NoError
           /\ "CBC initialization warning" \notin log

\* s without its first n characters
Drop(s, n) == SubSeq(s, n + 1, Len(s))

\* url is the translation of the WebSocket endpoint ws
Translated(url, ws) ==
    /\ HasPrefix(ws, SchemeWS) => url = SchemeHTTP \o Drop(ws, 5)
    /\ HasPrefix(ws, SchemeWSS) => url = SchemeHTTPS \o Drop(ws, 6)

\* C15: for every endpoint "ws://" + rest both NewCBCInitializer's httpURL and
\* convertWSToHTTP give "http://" + rest, and for every endpoint
\* "wss://" + rest they give "https://" + rest.
C15_WebSocketSchemesTranslated ==
    /\ httpURL # << >> => Translated(httpURL[1], wsEndPoint)
    /\ HTTPEndpoint # << >> => Translated(HTTPEndpoint[1], wsEndPoint)

\* C16: for every endpoint that begins with "http://" or "https://" both
\* NewCBCInitializer's httpURL and convertWSToHTTP equal the endpoint.
C16_HTTPEndpointUnchanged ==
    (HasPrefix(wsEndPoint, SchemeHTTP) \/ HasPrefix(wsEndPoint, SchemeHTTPS))
        => /\ httpURL # << >> => httpURL[1] = wsEndPoint
           /\ HTTPEndpoint # << >> => HTTPEndpoint[1] = wsEndPoint

\* C17: IsCBCPallet returns true for PalletCbcPoi, PalletCbcPos and Dcf, and
\* false for every other name.
C17_IsCBCPalletExact ==
    isCBCPallet # << >>
        => isCBCPallet[1] = (palletName \in {"PalletCbcPoi", "PalletCbcPos", "Dcf"})

C17_Witness ==
    /\ palletName = "Dcf"
    /\ isCBCPallet = << TRUE >>

StartsExplorer == "Step 6: Starting explorer services..."

\* C18: clean-restart.sh makes at most 30 probes with a sleep of 2 seconds
\* after each failed one, 60 seconds at most; it starts the explorer services
\* only after a probe succeeded, and when none did it exits with status 1
\* and has not started them.
C18_ExplorerAfterReadiness ==
    /\ probes <= 30
    /\ waited = 2 * (probes - (IF NODE_READY THEN 1 ELSE 0))
    /\ waited <= 60
    /\ StartsExplorer \in output => NODE_READY
    /\ (step \notin {"Step 1", "Step 2", "Step 3", "Step 4", "Step 5"} /\ ~NODE_READY)
          => /\ step \in {"Step 5 check", "exited"}
             /\ step = "exited" => exitStatus = << 1 >>
             /\ StartsExplorer \notin output
    /\ (step = "exited" /\ ~NODE_READY /\ binaryExists) => probes = 30

C18_Witness ==
    /\ step = "exited"
    /\ probes = 30
    /\ ~NODE_READY
    /\ exitStatus = << 1 >>
    /\ StartsExplorer \notin output

FetchMethods == {"state_getRuntimeVersion", "state_getMetadata"}

\* the delays a fetch with n attempts takes
DelaysOf(n) == IF n > 0 THEN n - 1 ELSE 0

\* C21: a fetch sleeps 2 seconds, always the same, before every attempt but
\* its first and nowhere else: a fetch with k attempts takes k-1 delays and
\* an exhausted one exactly 2.
C21_FixedDelay ==
    /\ \A k \in 1..Len(delays) : delays[k] = 2
    /\ Len(delays) = Cardinality(Calls("Sleep"))
    /\ \A k \in Calls("Sleep") :
          /\ k < Len(trace)
          /\ trace[k + 1] \in FetchMethods
          /\ \E j \in 1..(k - 1) : trace[j] = trace[k + 1]
    /\ \A k \in 1..Len(trace) :
          (trace[k] \in FetchMethods /\ \E j \in 1..(k - 1) : trace[j] = trace[k])
              => trace[k - 1] = "Sleep"
    /\ Cardinality(Calls("Sleep")) =
          DelaysOf(Cardinality(Calls("state_getRuntimeVersion")))
          + DelaysOf(Cardinality(Calls("state_getMetadata")))
    /\ (pc = "versionFetched" /\ fetchErr # NoError) => Len(delays) = 2
    /\ (pc = "metadataFetched" /\ fetchErr # NoError)
          => Len(delays) = DelaysOf(Cardinality(Calls("state_getRuntimeVersion"))) + 2

C21_Witness ==
    /\ pc = "metadataFetched"
    /\ fetchErr # NoError
    /\ Cardinality(Calls("state_getRuntimeVersion")) = 1
    /\ delays = << 2, 2 >>

\* the errors of a response that arrived and is malformed
MalformedErrors ==
    { Wrap("failed to unmarshal runtime version", 0, Errorf("json: cannot unmarshal", 0)),
      Wrap("failed to unmarshal metadata", 0, Errorf("json: cannot unmarshal", 0)),
      Errorf("invalid metadata format: missing 0x prefix", 0) }

\* the last call was of this method and returned a response
Responded(method) ==
    /\ Len(trace) >= 2
    /\ trace[Len(trace) - 1] = method
    /\ callErr = NoError

MalformedVersion ==
    /\ Responded("state_getRuntimeVersion")
    /\ httpResp[1].result.kind # "object"

MalformedMetadata ==
    /\ Responded("state_getMetadata")
    /\ \/ httpResp[1].result.kind # "string"
       \/ ~HasPrefix(httpResp[1].result.str, Prefix0x)

\* C22: a runtime-version response that does not parse, and a metadata
\* response that is no JSON string or lacks the "0x" prefix, are not accepted
\* and do not fail the fetch at once: each consumes one attempt, and the
\* fetch fails only when all its attempts are spent.
C22_MalformedRetried ==
    /\ MalformedVersion
          => /\ runtimeVersion = 0
             /\ pc = "fetchRuntimeVersion"
                   => /\ attemptLog[Len(attemptLog)] \in MalformedErrors
                      /\ i = Cardinality(Calls("state_getRuntimeVersion"))
             /\ pc = "versionFetched"
                   => /\ fetchErr # NoError
                      /\ Cardinality(Calls("state_getRuntimeVersion")) = retries
    /\ MalformedMetadata
          => /\ metadataHex = << >>
             /\ pc = "fetchMetadata"
                   => /\ attemptLog[Len(attemptLog)] \in MalformedErrors
                      /\ i = Cardinality(Calls("state_getMetadata"))
             /\ pc = "metadataFetched"
                   => /\ fetchErr # NoError
                      /\ Cardinality(Calls("state_getMetadata")) = retries

C22_Witness ==
    /\ pc = "metadataFetched"
    /\ fetchErr = NoError
    /\ Len(attemptLog) = 2
    /\ attemptLog[1] = Errorf("invalid metadata format: missing 0x prefix", 0)
    /\ attemptLog[2] = Wrap("failed to unmarshal metadata", 0, Errorf("json: cannot unmarshal", 0))

\* the envelope of the last exchange arrived and carries an error object
RemoteError ==
    /\ httpResp # << >>
    /\ httpResp[1].doOk
    /\ httpResp[1].status = 200
    /\ httpResp[1].readOk
    /\ httpResp[1].parses
    /\ httpResp[1].rpcError # << >>

\* C23: every call of the RPC client makes exactly one HTTP round trip; an
\* envelope with an error object makes the call fail with an RPC error that
\* carries the remote code and message, and the fetch loops count that
\* failure as one attempt, like any other.
C23_OneRoundTripAndRPCError ==
    /\ Count(trace, {"client.Do"}) = Count(trace, RPCMethods)
    /\ \A k \in 1..Len(trace) :
          trace[k] \in RPCMethods => (k < Len(trace) /\ trace[k + 1] = "client.Do")
    /\ RemoteError
          => callErr = << [msg |-> "RPC error",
                           n |-> httpResp[1].rpcError[1].code,
                           s |-> httpResp[1].rpcError[1].message] >>
    /\ pc \in {"fetchRuntimeVersion", "fetchMetadata"}
          => /\ i = Len(attemptLog)
             /\ (callErr # NoError /\ i > 0) => attemptLog[i] = callErr

C23_Witness ==
    /\ pc = "fetchMetadata"
    /\ i = 2
    /\ attemptLog[1] = << [msg |-> "RPC error", n |-> -32000, s |-> "remote"] >>
    /\ attemptLog[2] = Errorf("failed to make request", 0)

TransportErrors ==
    { "failed to make request", "unexpected status code", "failed to read response",
      "failed to unmarshal response" }

\* C24: a call fails with a transport error when the request fails, when the
\* status code is not a success code, when the body cannot be read or does
\* not parse; it returns a response only when the status is a success code,
\* the body parses and the envelope carries no error object.
C24_TransportErrors ==
    httpResp # << >> =>
        LET r == httpResp[1]
        IN  /\ (~r.doOk \/ r.status \notin 200..299 \/ ~r.readOk \/ ~r.parses)
                  => (callErr # NoError /\ callErr[1].msg \in TransportErrors)
            /\ callErr = NoError
                  => (r.doOk /\ r.status \in 200..299 /\ r.parses /\ r.rpcError = << >>)

C24_Witness ==
    /\ httpResp # << >>
    /\ httpResp[1].status = 404
    /\ httpResp[1].parses
    /\ httpResp[1].rpcError = << >>
    /\ callErr = Errorf("unexpected status code", 404)

\* the service is inside Initialize, or Initialize has just returned
InInitialize ==
    pc \in { "fetchRuntimeVersion", "versionFetched", "fetchMetadata", "metadataFetched",
             "insertRuntimeVersion", "CreateRuntimeVersion", "SetRuntimeData", "verifyInsert",
             "inserted", "InitializeReturned" }

BothFetched == runtimeVersion # 0 /\ metadataHex # << >>

StoreWrites == {"CreateRuntimeVersion", "SetRuntimeData"}

\* C25: as long as Initialize has not fetched both the runtime version and
\* the metadata, and when a fetch failed, it has issued no Store write, the
\* Store is as it was at entry and the codec registry has not been called.
C25_NoWriteBeforeBothFetches ==
    /\ (InInitialize /\ ~BothFetched)
          => /\ Count(trace, StoreWrites) = 0
             /\ store = entryRecent
             /\ registry = << >>
    /\ (pc = "InitializeReturned" /\ fetchErr # NoError)
          => (~BothFetched /\ initErr # NoError)

C25_Witness ==
    /\ pc = "InitializeReturned"
    /\ fetchErr # NoError
    /\ runtimeVersion # 0
    /\ store # << >>
    /\ store = entryRecent
    /\ Count(trace, StoreWrites) = 0

\* insertRuntimeVersion has returned
InsertReturned == pc \in {"inserted", "InitializeReturned"} /\ BothFetched

\* the record has the fetched spec version and more than 100 characters
Matching(recent) ==
    /\ recent # << >>
    /\ recent[1].SpecVersion = runtimeVersion
    /\ Len(recent[1].RawData) > 100

\* C26: after both fetches, when the most recent record has the fetched spec
\* version and more than 100 characters of metadata Initialize issues no
\* write and the Store keeps its record; otherwise it issues both writes.
C26_PersistRecheck ==
    InsertReturned =>
        IF Matching(entryRecent)
        THEN /\ Count(trace, StoreWrites) = 0
             /\ store = entryRecent
        ELSE /\ Count(trace, {"CreateRuntimeVersion"}) = 1
             /\ Count(trace, {"SetRuntimeData"}) = 1

C26_Witness ==
    /\ pc = "inserted"
    /\ BothFetched
    /\ Matching(entryRecent)
    /\ Count(trace, StoreWrites) = 0
    /\ store = entryRecent

\* C27: in one Initialize the version entry is created before the metadata is
\* attached, each at most once, and the metadata is attached whatever became
\* of the creation.
C27_WriteOrdering ==
    /\ Count(trace, {"CreateRuntimeVersion"}) <= 1
    /\ Count(trace, {"SetRuntimeData"}) <= 1
    /\ \A a \in Calls("SetRuntimeData") : \E c \in Calls("CreateRuntimeVersion") : c < a
    /\ pc # "SetRuntimeData"
          => Count(trace, {"SetRuntimeData"}) = Count(trace, {"CreateRuntimeVersion"})

C27_Witness ==
    /\ pc = "verifyInsert"
    /\ entryRecent = << >>
    /\ store = << >>
    /\ dropped
    /\ Count(trace, {"CreateRuntimeVersion"}) = 1
    /\ Count(trace, {"SetRuntimeData"}) = 1

VerificationError ==
    Errorf("failed to verify runtime data after insert - metadata not found in database", 0)

\* C28: when Initialize returns success after the writes, the record read
\* back exists, has the fetched spec version and more than 100 characters of
\* metadata; a record of 100 characters or fewer makes Initialize fail with
\* the verification error.
C28_VerificationThreshold ==
    (pc = "InitializeReturned" /\ Has(trace, "SetRuntimeData"))
        => /\ initErr = NoError => Matching(RuntimeVersionRecent(store))
           /\ (store # << >> /\ Len(store[1].RawData) <= 100)
                 => initErr = Wrap("failed to insert runtime version", 0, VerificationError)

\* C29: when the Store applies both writes, Initialize does not fail with
\* the verification error, whatever the node returned.
C29_FaithfulStoreVerifies ==
    (pc \in {"inserted", "InitializeReturned"} /\ Has(trace, "SetRuntimeData") /\ ~dropped)
        => insertErr = NoError

\* C30: after the check of the written record fails, Initialize makes no
\* further RPC call and no further Store write, does not call the codec
\* registry, and returns the error, which initCBCChain returns to New.
C30_VerificationFatal ==
    (pc \in {"inserted", "InitializeReturned", "cbcReturned"} /\ insertErr # NoError)
        => /\ insertErr = VerificationError
           /\ trace[Len(trace)] = "RuntimeVersionRecent"
           /\ Count(trace, {"CreateRuntimeVersion"}) = 1
           /\ Count(trace, {"SetRuntimeData"}) = 1
           /\ Count(trace, FetchMethods) <= 2 * retries
           /\ registry = << >>
           /\ pc # "inserted"
                 => /\ initErr = Wrap("failed to insert runtime version", 0, insertErr)
                    /\ ~history[Len(history)].ok
           /\ pc = "cbcReturned"
                 => cbcErr = Wrap("CBC initialization failed", 0, initErr)

C30_Witness ==
    /\ pc = "cbcReturned"
    /\ insertErr = VerificationError
    /\ cbcErr # NoError
    /\ registry = << >>

\* C31: Initialize calls the codec registry only after both fetches and
\* insertRuntimeVersion succeeded, once, with the fetched spec version and the
\* fetched metadata; on every failing path the registry is not called.
C31_RegistersOnSuccessOnly ==
    /\ (InInitialize /\ registry # << >>)
          => /\ pc = "InitializeReturned"
             /\ BothFetched
             /\ fetchErr = NoError
             /\ insertErr = NoError
             /\ initErr = NoError
             /\ registry = << [Spec |-> runtimeVersion, Raw |-> metadataHex] >>
             /\ trace[Len(trace)] = "metadata.Latest"
             /\ Count(trace, {"metadata.Latest"}) = 1
    /\ (pc = "InitializeReturned" /\ initErr # NoError)
          => (registry = << >> /\ ~Has(trace, "metadata.Latest"))
    /\ (pc = "InitializeReturned" /\ initErr = NoError /\ BothFetched)
          => registry = << [Spec |-> runtimeVersion, Raw |-> metadataHex] >>

C31_Witness ==
    /\ pc = "InitializeReturned"
    /\ initErr = NoError
    /\ Has(trace, "SetRuntimeData")
    /\ runtimeVersion = 101
    /\ registry = << [Spec |-> 101, Raw |-> metadataHex] >>

\* events of Initialize that no later step of a start repeats
InitializeEvents == FetchMethods \cup StoreWrites \cup {"Sleep"}

HeadFailures == {"failed to get finalized head", "failed to unmarshal finalized hash"}

\* C32: chain_getFinalizedHead is called only after Initialize returned
\* success, chain_getBlock only after chain_getFinalizedHead succeeded and
\* with the returned hash as its single parameter; after a failed Initialize,
\* and after a failed chain_getFinalizedHead, the later calls are not made.
C32_LivenessCheckOrdering ==
    /\ Has(trace, "chain_getFinalizedHead")
          => /\ initErr = NoError
             /\ history # << >> /\ history[Len(history)].ok
             /\ Cardinality(Calls("chain_getFinalizedHead")) = 1
             /\ \A k \in Calls("chain_getFinalizedHead") :
                   \A j \in 1..Len(trace) : trace[j] \in InitializeEvents => j < k
    /\ pc = "chain_getBlock"
          => /\ callErr = NoError
             /\ req = << HeadRequest >>
             /\ httpResp[1].result = JString(finalizedHash)
             /\ ~Has(trace, "chain_getBlock")
    /\ Has(trace, "chain_getBlock")
          => /\ Cardinality(Calls("chain_getBlock")) = 1
             /\ \A k \in Calls("chain_getBlock") : trace[k - 2] = "chain_getFinalizedHead"
             /\ req = << [Method |-> "chain_getBlock", Params |-> << finalizedHash >>] >>
             /\ (finErr = NoError \/ finErr[1].msg \notin HeadFailures)
    /\ (finErr # NoError /\ finErr[1].msg \in HeadFailures)
          => (~Has(trace, "chain_getBlock") /\ req = << HeadRequest >>)
    /\ initErr # NoError
          => /\ ~Has(trace, "chain_getFinalizedHead")
             /\ ~Has(trace, "chain_getBlock")
             /\ req = << >>

C32_Witness ==
    /\ pc = "finalityVerified"
    /\ Has(trace, "chain_getBlock")
    /\ finalizedHash = Prefix0x \o Pad("1", 64)
    /\ req = << [Method |-> "chain_getBlock", Params |-> << finalizedHash >>] >>

\* New is past initCBCChain, which ran Initialize and returned success
CBCInitSucceeded ==
    /\ pc \in {"initSubRuntimeLatestWithoutFetch", "initSubRuntimeLatest", "regCodecMetadata",
               "done", "panicked"}
    /\ Applicable(networkNode)
    /\ cbcErr = NoError
    /\ initErr = NoError

\* C33: after initCBCChain returned success, the follow-up initialization
\* loads the metadata from the Store only: it never reaches the generic fetch
\* path, neither the regCodecMetadata attempts nor the panic.
C33_SuccessSkipsStandardFetch ==
    CBCInitSucceeded
        => /\ pc \notin {"initSubRuntimeLatest", "regCodecMetadata", "panicked"}
           /\ ~Has(trace, "initSubRuntimeLatest")
           /\ ~Has(trace, "regCodecMetadata")

\* the service is inside Initialize and has not returned from it
Initializing == pc = "Initialize" \/ (InInitialize /\ pc # "InitializeReturned")

\* the calls of one Initialize stay within its budget
WithinBudget ==
    (pc = "Initialize" \/ InInitialize)
        => /\ Count(trace, FetchMethods) <= 6
           /\ Count(trace, {"client.Do"}) <= 6
           /\ Count(trace, {"Sleep"}) <= 4
           /\ Len(delays) <= 4
           /\ Count(trace, {"RuntimeVersionRecent"}) <= 3
           /\ Count(trace, StoreWrites) <= 2
           /\ i <= retries

\* C34: when every RPC call and every Store call returns, each Initialize
\* invocation eventually returns, success or an error, after at most 6 RPC
\* calls, 4 delays, 3 Store reads and 2 Store writes.
C34_InitializeTerminates ==
    /\ [] WithinBudget
    /\ Initializing ~> (pc = "InitializeReturned")

C34_Witness ==
    /\ pc = "InitializeReturned"
    /\ Count(trace, FetchMethods) = 6
    /\ Count(trace, {"Sleep"}) = 4
    /\ Count(trace, {"RuntimeVersionRecent"}) = 3
    /\ Count(trace, StoreWrites) = 2

\* the create/attach writes invocation p has issued
WritesOf(p) == Count(inits[p].storeCalls, StoreWrites)

\* both invocations fetched the same spec version
SameVersionFetched ==
    /\ inits[1].runtimeVersion # 0
    /\ inits[1].runtimeVersion = inits[2].runtimeVersion

Rechecked(p) == Count(inits[p].storeCalls, {"RuntimeVersionRecent"}) >= 2

\* the record p's re-check read has the spec version p fetched and more than
\* 100 characters of metadata
FoundInserted(p) ==
    /\ inits[p].recent # << >>
    /\ inits[p].recent[1].SpecVersion = inits[p].runtimeVersion
    /\ Len(inits[p].recent[1].RawData) > 100

BothReturnedSameData ==
    /\ \A p \in Invocations : inits[p].pc = "returned" /\ ~inits[p].dropped
    /\ SameVersionFetched
    /\ inits[1].metadataHex = inits[2].metadataHex
    /\ HasPrefix(inits[1].metadataHex, Prefix0x)
    /\ Len(inits[1].metadataHex) > 100

\* C36: when two concurrent invocations get the same spec version and the
\* same valid metadata from the node and the Store applies every write, both
\* return success and the final Store record is valid, with that spec version.
C36_ConcurrentBootstrapsSafe ==
    BothReturnedSameData
        => /\ \A p \in Invocations : inits[p].err = NoError
           /\ IsValidRecord(store)
           /\ store[1].SpecVersion = inits[1].runtimeVersion

====
